---- MODULE Spec2Model ----
(***************************************************************************)
(* Translation synchronisation engine of ioBroker/adapter-dev.             *)
(*                                                                         *)
(* src/src/translate.ts: the translation cache, the rate-limit governor    *)
(* and translateText with its single bounded retry.                        *)
(* src/src/translate-adapter-handlers.ts: the translate command           *)
(* (translateIoPackage, translateI18n, translateI18nJson).                 *)
(*                                                                         *)
(* Texts are sequences of tokens ("" is <<>>, " " is a whitespace token),  *)
(* so that trim() and parseInt() are computed, not assumed.                *)
(***************************************************************************)
EXTENDS Integers, Sequences, FiniteSets, TLC

(***************************************************************************)
(* Bounds of the model.                                                    *)
(***************************************************************************)
\* largest retry-after number of seconds a provider error carries
MaxRetryAfter == 2
\* largest value passed to setRateLimitMaxWaitTime
MaxWaitSetting == 1
\* number of distinct translations the provider may return for one request
MaxVariant == 2
\* number of getTranslator() calls that await one createTranslator()
MaxAwaiters == 2

(***************************************************************************)
(* Program constants.                                                      *)
(***************************************************************************)
\* let rateLimitMaxWaitTime = 10
DefaultMaxWaitTime == 10
\* const maxRetries = 1
maxRetries == 1
\* retry-after used by the tests (setRateLimitState(true, 60))
LongRetryAfter == 60

(***************************************************************************)
(* JavaScript values.                                                      *)
(***************************************************************************)
\* number | undefined, with NaN as parseInt produces it
Undefined == [k |-> "undefined", n |-> 0]
NaN == [k |-> "NaN", n |-> 0]
Num(n) == [k |-> "number", n |-> n]

\* truthiness of a number | undefined value (0, NaN and undefined are falsy)
TruthyNum(v) == v.k = "number" /\ v.n # 0

\* a <= b on numbers, false when either side is NaN
JsLeq(a, b) == a.k = "number" /\ b.k = "number" /\ a.n <= b.n

\* the whitespace token
WS == " "

\* String.prototype.trim on a token sequence
RECURSIVE TrimStart(_)
TrimStart(s) ==
    IF s = <<>> THEN <<>>
    ELSE IF Head(s) = WS THEN TrimStart(Tail(s)) ELSE s

RECURSIVE TrimEnd(_)
TrimEnd(s) ==
    IF s = <<>> THEN <<>>
    ELSE IF s[Len(s)] = WS THEN TrimEnd(SubSeq(s, 1, Len(s) - 1)) ELSE s

Trim(s) == TrimEnd(TrimStart(s))

\* truthiness of a string (only "" is falsy)
TruthyStr(s) == s # <<>>

DigitChars == <<"0", "1", "2", "3", "4", "5", "6", "7", "8", "9">>

IsDigit(c) == \E i \in 1..10 : DigitChars[i] = c

DigitVal(c) == (CHOOSE i \in 1..10 : DigitChars[i] = c) - 1

\* decimal value of the leading digits of s, following acc
RECURSIVE ParseDigits(_, _)
ParseDigits(s, acc) ==
    IF s = <<>> \/ ~IsDigit(Head(s)) THEN acc
    ELSE ParseDigits(Tail(s), acc * 10 + DigitVal(Head(s)))

\* parseInt(s, 10): leading whitespace skipped, NaN without a leading digit
ParseInt(s) ==
    LET t == TrimStart(s)
    IN  IF t = <<>> \/ ~IsDigit(Head(t)) THEN NaN ELSE Num(ParseDigits(t, 0))

\* the decimal digits of n, as a header string
RECURSIVE ToDigits(_)
ToDigits(n) ==
    IF n < 10 THEN <<DigitChars[n + 1]>>
    ELSE ToDigits(n \div 10) \o <<DigitChars[(n % 10) + 1]>>

(***************************************************************************)
(* Inputs.                                                                 *)
(***************************************************************************)
\* allLanguages, cut to the first three of the eleven supported codes
allLanguages == <<"en", "de", "ru">>

Languages == {allLanguages[i] : i \in 1..Len(allLanguages)}

\* source texts handed to translateText
Hello == <<"Hello">>
World == <<"World">>
Texts == {<<>>, <<WS>>, Hello, World}

VariantNames == <<"t1", "t2", "t3", "t4">>
Variants == {VariantNames[i] : i \in 1..MaxVariant}

\* what a provider answers for (text, targetLang); the testing translator
\* answers `Mock translation of '${text}' to '${targetLang}'`
Translated(text, lang, v) == <<v, lang>> \o text

RetryAfterNumbers == (0..MaxRetryAfter) \cup {LongRetryAfter}

\* e.response.headers["retry-after"]: absent, or a string
NoHeader == [present |-> FALSE, chars |-> <<>>]
Header(chars) == [present |-> TRUE, chars |-> chars]
HeaderTruthy(h) == h.present /\ TruthyStr(h.chars)

\* the errors translator.translate() rejects with
RateLimitedError(retryAfter, header) ==
    [cls |-> "RateLimitedError", status |-> 429,
     retryAfter |-> retryAfter, header |-> header]
HttpError(status, header) ==
    [cls |-> "AxiosError", status |-> status,
     retryAfter |-> Undefined, header |-> header]
PlainError ==
    [cls |-> "Error", status |-> 0, retryAfter |-> Undefined, header |-> NoHeader]
NoError ==
    [cls |-> "none", status |-> 0, retryAfter |-> Undefined, header |-> NoHeader]

ProviderErrors ==
    {RateLimitedError(Undefined, NoHeader)}
    \cup {RateLimitedError(Num(n), NoHeader) : n \in RetryAfterNumbers}
    \cup {HttpError(429, NoHeader), HttpError(429, Header(<<>>)),
          HttpError(429, Header(<<"x">>))}
    \cup {HttpError(429, Header(ToDigits(n))) : n \in RetryAfterNumbers}
    \cup {HttpError(500, NoHeader), PlainError}

(***************************************************************************)
(* State.                                                                  *)
(***************************************************************************)
VARIABLES
    \* translate.ts module state
    translationCache,
    isRateLimited,
    rateLimitRetryAfter,
    rateLimitMaxWaitTime,
    translationsSkippedDueToRateLimit,
    creator,
    \* the translateText call in flight (between its awaits)
    call,
    \* the outcome of the most recent exported operation
    last,
    \* the first two translateText requests for one (text, targetLang) pair
    \* since the cache was last empty
    pairLog,
    \* the files on disk: io-package.json and the i18n catalogs per language
    ioPackageFile,
    i18nFiles,
    \* the translate command in progress, and what it did so far
    run,
    runLog

runVars == <<ioPackageFile, i18nFiles, run, runLog>>

VARIABLES
    \* process.env, and the translator createTranslator() comes to
    env,
    selection,
    \* what existsSync says of io-package.json and of the admin directory
    exists,
    \* the command line tool: parseOptions and the command it runs
    cli,
    \* words.js
    wordsFile,
    \* a second translateText call of the process, suspended at an await
    \* while the call in `call` runs
    peer

cliVars == <<env, selection, exists, cli, wordsFile, peer>>

moduleVars == <<translationCache, isRateLimited, rateLimitRetryAfter,
                rateLimitMaxWaitTime, translationsSkippedDueToRateLimit, creator>>

\* getRateLimitState()
getRateLimitState ==
    [isRateLimited |-> isRateLimited,
     rateLimitRetryAfter |-> rateLimitRetryAfter,
     translationsSkippedDueToRateLimit |-> translationsSkippedDueToRateLimit]

InitialRateLimitState ==
    [isRateLimited |-> FALSE,
     rateLimitRetryAfter |-> Undefined,
     translationsSkippedDueToRateLimit |-> FALSE]

EmptyMap == <<>>

\* langCache.has(text) for the language's map, if there is one
CacheHas(cache, lang, text) ==
    lang \in DOMAIN cache /\ text \in DOMAIN cache[lang]

\* if (!translationCache.has(targetLang)) translationCache.set(targetLang, new Map())
EnsureLangCache(cache, lang) ==
    IF lang \in DOMAIN cache THEN cache ELSE cache @@ (lang :> EmptyMap)

\* a langCache.set that stores nothing
CacheSetNothing(cache, lang, text, translated) ==
    EnsureLangCache(cache, lang)

\* langCache.set(text, translated)
CacheSet(cache, lang, text, translated) ==
    LET c == EnsureLangCache(cache, lang)
    IN  [c EXCEPT ![lang] =
            IF text \in DOMAIN c[lang]
            THEN [c[lang] EXCEPT ![text] = translated]
            ELSE c[lang] @@ (text :> translated)]

IdleCall ==
    [pc |-> "idle", owner |-> "none", text |-> <<>>, lang |-> "en",
     retryCount |-> 0, invocations |-> 0, waitTime |-> 0, waited |-> 0,
     sig1 |-> NoError, before |-> InitialRateLimitState, cached |-> FALSE]

NoOutcome ==
    [op |-> "none", owner |-> "none", text |-> <<>>, lang |-> "en",
     kind |-> "none", value |-> <<>>, retryAfter |-> Undefined,
     invocations |-> 0, waited |-> 0, sig1 |-> NoError, sig |-> NoError,
     retryCount |-> 0, maxWait |-> 0,
     before |-> InitialRateLimitState, cached |-> FALSE, log |-> "none"]

NoPairs ==
    [n |-> 0, text |-> <<>>, lang |-> "en",
     kind1 |-> "none", value1 |-> <<>>, inv1 |-> 0, direct |-> FALSE,
     kind2 |-> "none", value2 |-> <<>>, inv2 |-> 0]

\* pairLog after a translateText call completed with outcome o
Logged(o) ==
    IF o.lang = "en" \/ o.text = <<>> THEN pairLog
    ELSE IF pairLog.n = 0
    THEN [NoPairs EXCEPT !.n = 1, !.text = o.text, !.lang = o.lang,
              !.kind1 = o.kind, !.value1 = o.value, !.inv1 = o.invocations,
              !.direct = (o.kind = "return" /\ o.invocations = 1
                          /\ o.sig.cls = "none")]
    ELSE IF pairLog.n = 1 /\ pairLog.text = o.text /\ pairLog.lang = o.lang
    THEN [pairLog EXCEPT !.n = 2, !.kind2 = o.kind, !.value2 = o.value,
              !.inv2 = o.invocations]
    ELSE pairLog

\* the order of the keys the catalogs use, as Array.prototype.sort and a
\* lexicographic comparison see it
KeyRank == ("a" :> 1) @@ ("b" :> 2) @@ ("c" :> 3)

\* keys equals the same keys sorted
IsSorted(keys) ==
    \A m, n \in DOMAIN keys : m < n => KeyRank[keys[m]] < KeyRank[keys[n]]

\* a JSON object with string values: its keys in file order, and its values
EmptyCatalog == [keys |-> <<>>, val |-> <<>>]

Catalog1(k1, v1) == [keys |-> <<k1>>, val |-> (k1 :> v1)]
Catalog2(k1, v1, k2, v2) == [keys |-> <<k1, k2>>, val |-> (k1 :> v1) @@ (k2 :> v2)]

\* obj[key] is truthy: the key is there and its value is not ""
Truthy(obj, key) == key \in DOMAIN obj.val /\ TruthyStr(obj.val[key])

\* obj[key] = value: a new key is appended, an old one keeps its place
\* an assignment that keeps the value a key already has
AssignKeepsExisting(obj, key, value) ==
    IF key \in DOMAIN obj.val
    THEN obj
    ELSE [keys |-> Append(obj.keys, key), val |-> obj.val @@ (key :> value)]

Assign(obj, key, value) ==
    IF key \in DOMAIN obj.val
    THEN [obj EXCEPT !.val[key] = value]
    ELSE [keys |-> Append(obj.keys, key), val |-> obj.val @@ (key :> value)]

IdleRun ==
    [pc |-> "idle", i |-> 1, j |-> 1, content |-> EmptyCatalog,
     common |-> <<>>, langs |-> <<>>, rebuild |-> FALSE]

NoRunLog ==
    [skipped |-> {}, throttled |-> {}, fellBack |-> FALSE, invocations |-> 0,
     satisfied |-> FALSE, resetSeen |-> FALSE, afterReset |-> FALSE,
     prev |-> "none", gaps |-> {},
     startPackage |-> <<>>, startFiles |-> <<>>,
     failed |-> {}, empty |-> {}, named |-> {}, failedFields |-> {},
     inflight |-> 0, emptyFields |-> {}]

(***************************************************************************)
(* translate.ts                                                            *)
(***************************************************************************)
\* translateText without the isRateLimited check
TranslateTextHeadNoSkip(text, lang) ==
    IF lang = "en"
    THEN [kind |-> "return", value |-> text,
          retryAfter |-> Undefined, log |-> "none"]
    ELSE IF Trim(text) = <<>>
    THEN [kind |-> "return", value |-> text,
          retryAfter |-> Undefined, log |-> "Empty source text"]
    ELSE IF CacheHas(translationCache, lang, text)
    THEN [kind |-> "return", value |-> translationCache[lang][text],
          retryAfter |-> Undefined, log |-> "none"]
    ELSE [kind |-> "await", value |-> <<>>,
          retryAfter |-> Undefined, log |-> "none"]

\* translateText with the isRateLimited check ahead of the cache lookup
TranslateTextHeadSkipsFirst(text, lang) ==
    IF lang = "en"
    THEN [kind |-> "return", value |-> text,
          retryAfter |-> Undefined, log |-> "none"]
    ELSE IF Trim(text) = <<>>
    THEN [kind |-> "return", value |-> text,
          retryAfter |-> Undefined, log |-> "Empty source text"]
    ELSE IF isRateLimited
    THEN [kind |-> "throw", value |-> <<>>,
          retryAfter |-> rateLimitRetryAfter, log |-> "none"]
    ELSE IF CacheHas(translationCache, lang, text)
    THEN [kind |-> "return", value |-> translationCache[lang][text],
          retryAfter |-> Undefined, log |-> "none"]
    ELSE [kind |-> "await", value |-> <<>>,
          retryAfter |-> Undefined, log |-> "none"]

\* translateText with the test for English after the isRateLimited check
TranslateTextHeadEnglishLate(text, lang) ==
    IF Trim(text) = <<>>
    THEN [kind |-> "return", value |-> text,
          retryAfter |-> Undefined, log |-> "Empty source text"]
    ELSE IF CacheHas(translationCache, lang, text)
    THEN [kind |-> "return", value |-> translationCache[lang][text],
          retryAfter |-> Undefined, log |-> "none"]
    ELSE IF isRateLimited
    THEN [kind |-> "throw", value |-> <<>>,
          retryAfter |-> rateLimitRetryAfter, log |-> "none"]
    ELSE IF lang = "en"
    THEN [kind |-> "return", value |-> text,
          retryAfter |-> Undefined, log |-> "none"]
    ELSE [kind |-> "await", value |-> <<>>,
          retryAfter |-> Undefined, log |-> "none"]

\* the synchronous head of translateText, up to `await getTranslator()`
TranslateTextHead(text, lang) ==
    IF lang = "en"
    THEN [kind |-> "return", value |-> text,
          retryAfter |-> Undefined, log |-> "none"]
    ELSE IF Trim(text) = <<>>
    THEN [kind |-> "return", value |-> text,
          retryAfter |-> Undefined, log |-> "Empty source text"]
    ELSE IF CacheHas(translationCache, lang, text)
    THEN [kind |-> "return", value |-> translationCache[lang][text],
          retryAfter |-> Undefined, log |-> "none"]
    ELSE IF isRateLimited
    THEN [kind |-> "throw", value |-> <<>>,
          retryAfter |-> rateLimitRetryAfter, log |-> "none"]
    ELSE [kind |-> "await", value |-> <<>>,
          retryAfter |-> Undefined, log |-> "none"]

\* a head that stores the source text in the cache before the provider is
\* asked
CacheAfterHeadStoresText(text, lang) ==
    IF lang = "en" \/ Trim(text) = <<>>
    THEN translationCache
    ELSE IF CacheHas(translationCache, lang, text)
    THEN translationCache
    ELSE CacheSet(translationCache, lang, text, text)

\* the cache after the head: the language's map is created on the way
CacheAfterHead(text, lang) ==
    IF lang = "en" \/ Trim(text) = <<>>
    THEN translationCache
    ELSE EnsureLangCache(translationCache, lang)

\* e instanceof RateLimitedError || e.response?.status === 429
IsRateLimitSignal(e) == e.cls = "RateLimitedError" \/ e.status = 429

\* the retryAfter translateText extracts from the error
ExtractRetryAfter(e) ==
    IF e.cls = "RateLimitedError" /\ TruthyNum(e.retryAfter)
    THEN e.retryAfter
    ELSE IF HeaderTruthy(e.header)
    THEN ParseInt(e.header.chars)
    ELSE Undefined

\* const shouldRetry = ...
ShouldRetry(retryCount, retryAfter, maxWait) ==
    /\ retryCount < maxRetries
    /\ maxWait > 0
    /\ retryAfter # Undefined
    /\ JsLeq(retryAfter, Num(maxWait))

\* the result handed to the caller when a call completes
Outcome(kind, value, retryAfter, sig, log) ==
    [op |-> "translateText", owner |-> call.owner,
     text |-> call.text, lang |-> call.lang,
     kind |-> kind, value |-> value, retryAfter |-> retryAfter,
     invocations |-> call.invocations, waited |-> call.waited,
     sig1 |-> IF call.retryCount = 0 THEN sig ELSE call.sig1, sig |-> sig,
     retryCount |-> call.retryCount, maxWait |-> rateLimitMaxWaitTime,
     before |-> call.before, cached |-> call.cached, log |-> log]

\* translateText from its call to its first await (or to its end)
TranslateTextBegin(owner, text, lang) ==
    LET h == TranslateTextHead(text, lang)
    IN  /\ call.pc = "idle"
        /\ translationCache' = CacheAfterHead(text, lang)
        /\ UNCHANGED <<isRateLimited, rateLimitRetryAfter, rateLimitMaxWaitTime,
                       translationsSkippedDueToRateLimit>>
        /\ IF h.kind = "await"
           THEN /\ creator' = "promise"
                /\ call' = [IdleCall EXCEPT !.pc = "invoking", !.owner = owner,
                                !.text = text, !.lang = lang,
                                !.invocations = 1,
                                !.before = getRateLimitState]
                /\ last' = NoOutcome
           ELSE /\ creator' = creator
                /\ call' = IdleCall
                /\ last' = [NoOutcome EXCEPT !.op = "translateText",
                                !.owner = owner, !.text = text, !.lang = lang,
                                !.kind = h.kind, !.value = h.value,
                                !.retryAfter = h.retryAfter,
                                !.maxWait = rateLimitMaxWaitTime,
                                !.before = getRateLimitState,
                                !.cached = CacheHas(translationCache, lang, text),
                                !.log = h.log]

\* translator.translate() resolves: the translation is cached and returned
ProviderResolves(v) ==
    LET translated == Translated(call.text, call.lang, v)
    IN  /\ call.pc = "invoking"
        /\ translationCache' =
               CacheSet(translationCache, call.lang, call.text, translated)
        /\ UNCHANGED <<isRateLimited, rateLimitRetryAfter, rateLimitMaxWaitTime,
                       translationsSkippedDueToRateLimit, creator>>
        /\ call' = IdleCall
        /\ last' = Outcome("return", translated, Undefined, NoError, "none")

\* translator.translate() rejects with e: the catch block of translateText
ProviderRejects(e) ==
    LET retryAfter == ExtractRetryAfter(e)
    IN  /\ call.pc = "invoking"
        /\ UNCHANGED <<translationCache, rateLimitMaxWaitTime, creator>>
        /\ IF IsRateLimitSignal(e)
           THEN IF ShouldRetry(call.retryCount, retryAfter, rateLimitMaxWaitTime)
                THEN /\ call' = [call EXCEPT !.pc = "waiting",
                                     !.waitTime = retryAfter.n + 1,
                                     !.sig1 = e]
                     /\ UNCHANGED <<isRateLimited, rateLimitRetryAfter,
                                    translationsSkippedDueToRateLimit, last>>
                ELSE /\ isRateLimited' = TRUE
                     /\ rateLimitRetryAfter' = retryAfter
                     /\ translationsSkippedDueToRateLimit' = TRUE
                     /\ call' = IdleCall
                     /\ last' = Outcome("throw", <<>>, retryAfter, e, "none")
                ELSE /\ UNCHANGED <<isRateLimited, rateLimitRetryAfter,
                               translationsSkippedDueToRateLimit>>
                /\ call' = IdleCall
                /\ last' = Outcome("return", call.text, Undefined, e,
                                   "Could not translate")

\* the setTimeout of the retry fires: retryCount++, continue
RetryTimerFires ==
    /\ call.pc = "waiting"
    /\ call' = [call EXCEPT !.pc = "invoking",
                    !.retryCount = call.retryCount + 1,
                    !.invocations = call.invocations + 1,
                    !.waited = call.waited + call.waitTime]
    /\ UNCHANGED <<moduleVars, last>>

\* a reset that forgets to clear the skip flag
ResetStateKeepsSkipFlag ==
    [isRateLimited |-> FALSE,
     rateLimitRetryAfter |-> Undefined,
     translationsSkippedDueToRateLimit |-> translationsSkippedDueToRateLimit]

\* resetRateLimitState()
ResetState ==
    [isRateLimited |-> FALSE,
     rateLimitRetryAfter |-> Undefined,
     translationsSkippedDueToRateLimit |-> FALSE]

resetRateLimitState ==
    /\ call.pc = "idle"
    /\ isRateLimited' = ResetState.isRateLimited
    /\ rateLimitRetryAfter' = ResetState.rateLimitRetryAfter
    /\ translationsSkippedDueToRateLimit' =
           ResetState.translationsSkippedDueToRateLimit
    /\ UNCHANGED <<translationCache, rateLimitMaxWaitTime, creator, call>>
    /\ last' = [NoOutcome EXCEPT !.op = "resetRateLimitState",
                    !.before = getRateLimitState]

\* clearTranslationCache()
clearTranslationCache ==
    /\ call.pc = "idle"
    /\ translationCache' = EmptyMap
    /\ UNCHANGED <<isRateLimited, rateLimitRetryAfter, rateLimitMaxWaitTime,
                   translationsSkippedDueToRateLimit, creator, call>>
    /\ last' = [NoOutcome EXCEPT !.op = "clearTranslationCache"]

\* setRateLimitState(rateLimited, retryAfter)
setRateLimitState(rateLimited, retryAfter) ==
    /\ call.pc = "idle"
    /\ isRateLimited' = rateLimited
    /\ rateLimitRetryAfter' = retryAfter
    /\ UNCHANGED <<translationCache, rateLimitMaxWaitTime,
                   translationsSkippedDueToRateLimit, creator, call>>
    /\ last' = [NoOutcome EXCEPT !.op = "setRateLimitState"]

\* setRateLimitMaxWaitTime(seconds)
setRateLimitMaxWaitTime(seconds) ==
    /\ call.pc = "idle"
    /\ rateLimitMaxWaitTime' = seconds
    /\ UNCHANGED <<translationCache, isRateLimited, rateLimitRetryAfter,
                   translationsSkippedDueToRateLimit, creator, call>>
    /\ last' = [NoOutcome EXCEPT !.op = "setRateLimitMaxWaitTime"]

(***************************************************************************)
(* translate.ts: createTranslator and getTranslator.                       *)
(***************************************************************************)
\* a variable of process.env: not set, or set to a string
NotSet == [set |-> FALSE, chars |-> <<>>]
SetTo(chars) == [set |-> TRUE, chars |-> chars]
EnvValues == {NotSet, SetTo(<<>>), SetTo(<<"0">>), SetTo(<<"key">>)}

\* if (process.env.X)
TruthyEnv(v) == v.set /\ TruthyStr(v.chars)

NoEnv ==
    [TESTING |-> NotSet, DEEPL_API_KEY |-> NotSet,
     GOOGLE_APPLICATION_CREDENTIALS |-> NotSet]

\* createTranslator has not been called
NotSelected ==
    [pc |-> "none", translator |-> "none", tried |-> <<>>, errors |-> <<>>,
     awaiters |-> 0, started |-> 0]

\* createTranslator returns translator t
Selected(sel, t) == [sel EXCEPT !.pc = "done", !.translator = t]

\* createTranslator from `if (process.env.GOOGLE_APPLICATION_CREDENTIALS)` on
FromGoogle(sel) ==
    IF TruthyEnv(env.GOOGLE_APPLICATION_CREDENTIALS)
    THEN [sel EXCEPT !.pc = "googleInit", !.tried = Append(sel.tried, "googleV3")]
    ELSE Selected(sel, "legacy")

\* createTranslator from `if (process.env.DEEPL_API_KEY)` on
FromDeepl(sel) ==
    IF TruthyEnv(env.DEEPL_API_KEY)
    THEN [sel EXCEPT !.pc = "deeplInit", !.tried = Append(sel.tried, "deepl")]
    ELSE FromGoogle(sel)

\* a createTranslator that looks at DEEPL_API_KEY before TESTING
FromStartDeeplFirst(sel) ==
    IF TruthyEnv(env.DEEPL_API_KEY)
    THEN [sel EXCEPT !.pc = "deeplInit", !.tried = Append(sel.tried, "deepl")]
    ELSE IF TruthyEnv(env.TESTING)
    THEN Selected(sel, "testing")
    ELSE FromGoogle(sel)

\* createTranslator from its start to its first await or its return
FromStart(sel) ==
    IF TruthyEnv(env.TESTING)
    THEN Selected(sel, "testing")
    ELSE FromDeepl(sel)

\* a getTranslator that calls createTranslator for every caller
GetTranslatorEveryCall ==
    /\ selection.awaiters < MaxAwaiters
    /\ creator' = "promise"
    /\ selection' = FromStart([selection EXCEPT
                                  !.awaiters = selection.awaiters + 1,
                                  !.started = selection.started + 1])
    /\ UNCHANGED <<translationCache, isRateLimited, rateLimitRetryAfter,
                   rateLimitMaxWaitTime, translationsSkippedDueToRateLimit,
                   call, last, pairLog, runVars, env, exists, cli, wordsFile,
                   peer>>

\* getTranslator(): createTranslator runs for the first caller only
GetTranslator ==
    /\ IF creator = "undefined"
       THEN /\ creator' = "promise"
            /\ selection' = FromStart([selection EXCEPT !.awaiters = 1,
                                                        !.started = 1])
       ELSE /\ selection.awaiters < MaxAwaiters
            /\ creator' = creator
            /\ selection' = [selection EXCEPT !.awaiters = selection.awaiters + 1]
    /\ UNCHANGED <<translationCache, isRateLimited, rateLimitRetryAfter,
                   rateLimitMaxWaitTime, translationsSkippedDueToRateLimit,
                   call, last, pairLog, runVars, env, exists, cli, wordsFile,
                   peer>>

\* await deeplTranslator.init() resolves
DeeplInitResolves ==
    /\ selection.pc = "deeplInit"
    /\ selection' = Selected(selection, "deepl")
    /\ UNCHANGED <<moduleVars, call, last, pairLog, runVars, env, exists, cli,
                   wordsFile, peer>>

\* await deeplTranslator.init() rejects: catch (err) { error(err) }
DeeplInitRejects ==
    /\ selection.pc = "deeplInit"
    /\ selection' = FromGoogle([selection EXCEPT
                                   !.errors = Append(selection.errors, "deepl")])
    /\ UNCHANGED <<moduleVars, call, last, pairLog, runVars, env, exists, cli,
                   wordsFile, peer>>

\* await v3.init() resolves
GoogleInitResolves ==
    /\ selection.pc = "googleInit"
    /\ selection' = Selected(selection, "googleV3")
    /\ UNCHANGED <<moduleVars, call, last, pairLog, runVars, env, exists, cli,
                   wordsFile, peer>>

\* await v3.init() rejects: catch (err) { error(err) }
GoogleInitRejects ==
    /\ selection.pc = "googleInit"
    /\ selection' = Selected([selection EXCEPT
                                 !.errors = Append(selection.errors, "googleV3")],
                             "legacy")
    /\ UNCHANGED <<moduleVars, call, last, pairLog, runVars, env, exists, cli,
                   wordsFile, peer>>

(***************************************************************************)
(* The module used through its exported functions, as the unit tests do.   *)
(***************************************************************************)
vars == <<moduleVars, call, last, pairLog, runVars, cliVars>>

InitModule ==
    /\ translationCache = EmptyMap
    /\ isRateLimited = FALSE
    /\ rateLimitRetryAfter = Undefined
    /\ rateLimitMaxWaitTime = DefaultMaxWaitTime
    /\ translationsSkippedDueToRateLimit = FALSE
    /\ creator = "undefined"
    /\ call = IdleCall
    /\ last = NoOutcome
    /\ pairLog = NoPairs

\* the command line tool has not been started; everything it needs is there
NoWordsFile == [present |-> FALSE, data |-> EmptyCatalog]
IdleCli ==
    [pc |-> "start", command |-> "none", message |-> "none",
     warnings |-> {}, trip |-> "none", original |-> EmptyCatalog,
     previous |-> NoWordsFile, all |-> FALSE, missing |-> {}]

InitCli ==
    /\ env = NoEnv
    /\ selection = NotSelected
    /\ exists = [ioPackage |-> TRUE, admin |-> TRUE]
    /\ cli = IdleCli
    /\ wordsFile = NoWordsFile
    /\ peer = IdleCall

Init ==
    /\ InitModule
    /\ InitCli
    /\ ioPackageFile = <<>>
    /\ i18nFiles = EmptyMap
    /\ run = IdleRun
    /\ runLog = NoRunLog

CallTranslateText ==
    /\ \E text \in Texts, lang \in Languages :
           TranslateTextBegin("test", text, lang)
    /\ UNCHANGED <<pairLog, runVars>>
    /\ UNCHANGED cliVars

TranslatorResolves ==
    /\ \E v \in Variants : ProviderResolves(v)
    /\ UNCHANGED <<pairLog, runVars>>
    /\ UNCHANGED cliVars

TranslatorRejects ==
    /\ \E e \in ProviderErrors : ProviderRejects(e)
    /\ UNCHANGED <<pairLog, runVars>>
    /\ UNCHANGED cliVars

RetryTimer ==
    /\ RetryTimerFires
    /\ UNCHANGED <<pairLog, runVars>>
    /\ UNCHANGED cliVars

CallResetRateLimitState ==
    /\ resetRateLimitState
    /\ UNCHANGED <<pairLog, runVars>>
    /\ UNCHANGED cliVars

CallClearTranslationCache ==
    /\ clearTranslationCache
    /\ UNCHANGED <<pairLog, runVars>>
    /\ UNCHANGED cliVars

CallSetRateLimitState ==
    /\ \E rateLimited \in BOOLEAN,
          retryAfter \in {Undefined, Num(LongRetryAfter)} :
           setRateLimitState(rateLimited, retryAfter)
    /\ UNCHANGED <<pairLog, runVars>>
    /\ UNCHANGED cliVars

CallSetRateLimitMaxWaitTime ==
    /\ \E seconds \in (0..MaxWaitSetting) \cup {DefaultMaxWaitTime} :
           setRateLimitMaxWaitTime(seconds)
    /\ UNCHANGED <<pairLog, runVars>>
    /\ UNCHANGED cliVars

Next ==
    \/ CallTranslateText
    \/ TranslatorResolves
    \/ TranslatorRejects
    \/ RetryTimer
    \/ CallResetRateLimitState
    \/ CallClearTranslationCache
    \/ CallSetRateLimitState
    \/ CallSetRateLimitMaxWaitTime

Spec == Init /\ [][Next]_vars

(***************************************************************************)
(* Repeated requests within one run: the exported functions again, with    *)
(* the first two requests for one pair logged.                             *)
(***************************************************************************)
\* the texts requested repeatedly
RepeatTexts == {<<WS>>, Hello}

RepeatErrors ==
    {RateLimitedError(Undefined, NoHeader),
     RateLimitedError(Num(1), NoHeader),
     PlainError}

\* pairLog once the step is taken: a completed call is logged
LogStep == pairLog' = IF call'.pc = "idle" THEN Logged(last') ELSE pairLog

RepeatRequest ==
    /\ \E text \in RepeatTexts, lang \in Languages :
           TranslateTextBegin("test", text, lang)
    /\ LogStep
    /\ UNCHANGED runVars
    /\ UNCHANGED cliVars

RepeatResolves ==
    /\ \E v \in Variants : ProviderResolves(v)
    /\ LogStep
    /\ UNCHANGED runVars
    /\ UNCHANGED cliVars

RepeatRejects ==
    /\ \E e \in RepeatErrors : ProviderRejects(e)
    /\ LogStep
    /\ UNCHANGED runVars
    /\ UNCHANGED cliVars

RepeatRetryTimer ==
    /\ RetryTimerFires
    /\ UNCHANGED <<pairLog, runVars>>
    /\ UNCHANGED cliVars

RepeatReset ==
    /\ resetRateLimitState
    /\ UNCHANGED <<pairLog, runVars>>
    /\ UNCHANGED cliVars

RepeatThrottle ==
    /\ setRateLimitState(TRUE, Undefined)
    /\ UNCHANGED <<pairLog, runVars>>
    /\ UNCHANGED cliVars

RepeatClear ==
    /\ clearTranslationCache
    /\ pairLog' = NoPairs
    /\ UNCHANGED runVars
    /\ UNCHANGED cliVars

NextRepeat ==
    \/ RepeatRequest
    \/ RepeatResolves
    \/ RepeatRejects
    \/ RepeatRetryTimer
    \/ RepeatReset
    \/ RepeatThrottle
    \/ RepeatClear

SpecRepeat == Init /\ [][NextRepeat]_vars

(***************************************************************************)
(* translate-adapter-handlers.ts: the translate command.                   *)
(***************************************************************************)
\* translateLanguages as parseOptions sets it without --languages
translateLanguages == allLanguages

\* a translation that is already in a file before the run
Prior == <<"alt">>

\* const text = obj.en || baseText
SourceText(e) == IF Truthy(e.obj, "en") THEN e.obj.val["en"] ELSE e.baseText

\* the next iteration of `for (const lang of translateLanguages)`, and of the
\* walk over the fields of content.common after its last language
NextField(r) ==
    IF r.j < Len(translateLanguages)
    THEN [r EXCEPT !.j = r.j + 1]
    ELSE [r EXCEPT !.i = r.i + 1, !.j = 1]

\* the catalog file of a language as readJson gives it, {} for a new language
Loaded(files, lang) ==
    IF lang \in DOMAIN files THEN files[lang] ELSE EmptyCatalog

IsExistingTarget(lang) == lang # "en" /\ lang \in DOMAIN i18nFiles
IsMissing(lang) == lang \notin DOMAIN i18nFiles

\* a command that creates no catalog for a new language
LanguageOrderExistingOnly == SelectSeq(translateLanguages, IsExistingTarget)

\* the languages translateI18n goes through: the files found, "en" left out,
\* then missingLanguages
LanguageOrder ==
    SelectSeq(translateLanguages, IsExistingTarget)
        \o SelectSeq(translateLanguages, IsMissing)

\* Object.entries(baseContent)
baseContent == i18nFiles["en"]

\* the language and key the command is at
RunLang ==
    IF run.pc = "ioPackage" THEN translateLanguages[run.j] ELSE run.langs[run.i]
RunKey == baseContent.keys[run.j]

\* a command that writes the source text for a skipped translation
AbsorbedWritesSource(o) ==
    IF run.pc = "ioPackage"
    THEN NextField([run EXCEPT !.common[run.i].obj =
                        Assign(run.common[run.i].obj, RunLang,
                               IF o.kind = "throw" THEN o.text ELSE o.value)])
    ELSE [run EXCEPT !.content = Assign(run.content, RunKey,
                               IF o.kind = "throw" THEN o.text ELSE o.value),
                     !.j = run.j + 1]

\* the command after `obj[lang] = await translateText(...)` or
\* `content[t] = await translateText(...)` got outcome o: nothing catches a
\* TranslationSkippedError, it ends the command
Absorbed(o) ==
    IF o.kind = "throw"
    THEN [run EXCEPT !.pc = "aborted"]
    ELSE IF run.pc = "ioPackage"
    THEN NextField([run EXCEPT !.common[run.i].obj =
                        Assign(run.common[run.i].obj, RunLang, o.value)])
    ELSE [run EXCEPT !.content = Assign(run.content, RunKey, o.value),
                     !.j = run.j + 1]

\* the optional third argument of translateText, the key the text belongs to
NoKey == [given |-> FALSE, key |-> ""]
\* const keyInfo = key ? ` for key "${key}"` : ""
NamesKey(arg) == arg.given /\ arg.key # ""
\* translateI18nJson calls translateText(base, lang)
KeyArgument == NoKey

\* what the command did, after a request completed with outcome o
LogCompleted(log, o) ==
    [log EXCEPT
        !.skipped = IF o.kind = "throw" /\ run.pc = "i18n"
                    THEN log.skipped \cup {<<RunLang, RunKey>>}
                    ELSE log.skipped,
        !.fellBack = log.fellBack \/ o.log = "Could not translate",
        !.invocations = log.invocations + o.invocations,
        !.failed = IF o.log = "Could not translate" /\ run.pc = "i18n"
                   THEN log.failed \cup {<<RunLang, RunKey>>}
                   ELSE log.failed,
        !.empty = IF o.log = "Empty source text" /\ run.pc = "i18n"
                  THEN log.empty \cup {<<RunLang, RunKey>>}
                  ELSE log.empty,
        !.named = IF o.log = "Empty source text" /\ run.pc = "i18n"
                     /\ NamesKey(KeyArgument)
                  THEN log.named \cup {<<RunLang, RunKey>>}
                  ELSE log.named,
        !.failedFields = IF o.log = "Could not translate"
                            /\ run.pc = "ioPackage"
                         THEN log.failedFields \cup {<<RunLang, run.i>>}
                         ELSE log.failedFields,
        !.inflight = log.inflight - 1,
        !.emptyFields = IF o.log = "Empty source text"
                           /\ run.pc = "ioPackage"
                        THEN log.emptyFields \cup {<<RunLang, run.i>>}
                        ELSE log.emptyFields]

\* what the command did, when it requests a translation
LogRequested(log) ==
    IF run.pc = "i18n"
    THEN [log EXCEPT
            !.throttled = IF isRateLimited
                          THEN log.throttled \cup {<<RunLang, RunKey>>}
                          ELSE log.throttled,
            !.satisfied = log.satisfied
                          \/ Truthy(Loaded(log.startFiles, RunLang), RunKey),
            !.inflight = log.inflight + 1]
    ELSE [log EXCEPT
            !.satisfied = log.satisfied
                          \/ Truthy(log.startPackage[run.i].obj, RunLang),
            !.inflight = log.inflight + 1]

\* await translateText(text, lang) of the command
RunRequest(text, lang) ==
    /\ TranslateTextBegin("run", text, lang)
    /\ IF call'.pc = "idle"
       THEN /\ run' = Absorbed(last')
            /\ runLog' = LogCompleted(LogRequested(runLog), last')
       ELSE /\ run' = run
            /\ runLog' = LogRequested(runLog)

\* the awaited call of the command, or of a test, is over
RunCompleted ==
    IF call.owner = "run" /\ call'.pc = "idle"
    THEN /\ run' = Absorbed(last')
         /\ runLog' = LogCompleted(runLog, last')
    ELSE UNCHANGED <<run, runLog>>

Between == run.pc \in {"idle", "done", "aborted", "failed"}

\* handleTranslateCommand is called: translateIoPackage reads io-package.json
StartTranslate ==
    /\ Between
    /\ call.pc = "idle"
    /\ run' = [IdleRun EXCEPT !.pc = "ioPackage", !.common = ioPackageFile]
    /\ runLog' = [NoRunLog EXCEPT !.afterReset = runLog.resetSeen,
                      !.prev = run.pc, !.gaps = runLog.skipped,
                      !.startPackage = ioPackageFile,
                      !.startFiles = i18nFiles]
    /\ UNCHANGED <<moduleVars, call, last, pairLog, ioPackageFile, i18nFiles>>
    /\ UNCHANGED cliVars

\* a translateNotExisting that translates the languages it already has
PackageStepAlwaysTranslates ==
    /\ run.pc = "ioPackage"
    /\ call.pc = "idle"
    /\ run.i <= Len(run.common)
    /\ LET e == run.common[run.i]
           text == SourceText(e)
       IN  IF ~TruthyStr(text)
           THEN /\ run' = [run EXCEPT !.i = run.i + 1, !.j = 1]
                /\ UNCHANGED <<moduleVars, call, last, runLog>>
           ELSE RunRequest(text, RunLang)
    /\ UNCHANGED <<pairLog, ioPackageFile, i18nFiles>>
    /\ UNCHANGED cliVars

\* translateIoPackage / translateNotExisting: one language of one field
PackageStep ==
    /\ run.pc = "ioPackage"
    /\ call.pc = "idle"
    /\ run.i <= Len(run.common)
    /\ LET e == run.common[run.i]
           text == SourceText(e)
       IN  IF ~TruthyStr(text)
           THEN /\ run' = [run EXCEPT !.i = run.i + 1, !.j = 1]
                /\ UNCHANGED <<moduleVars, call, last, runLog>>
           ELSE IF Truthy(e.obj, RunLang)
           THEN /\ run' = NextField(run)
                /\ UNCHANGED <<moduleVars, call, last, runLog>>
           ELSE RunRequest(text, RunLang)
    /\ UNCHANGED <<pairLog, ioPackageFile, i18nFiles>>
    /\ UNCHANGED cliVars

\* translateIoPackage: writeJson(ioPackage, content); translateI18n begins
\* with readJson(baseFile), which throws when the base catalog is not there
PackageWrite ==
    /\ run.pc = "ioPackage"
    /\ call.pc = "idle"
    /\ run.i > Len(run.common)
    /\ ioPackageFile' = run.common
    /\ run' = IF "en" \notin DOMAIN i18nFiles
              THEN [run EXCEPT !.pc = "failed"]
              ELSE [run EXCEPT !.pc = "i18n", !.i = 1, !.j = 1,
                        !.langs = LanguageOrder,
                        !.content = IF LanguageOrder = <<>> THEN EmptyCatalog
                                    ELSE Loaded(i18nFiles, LanguageOrder[1])]
    /\ UNCHANGED <<moduleVars, call, last, pairLog, i18nFiles, runLog>>
    /\ UNCHANGED cliVars

\* the rebuild option of the translate command: every key of the base catalog
\* is treated as missing
RebuildMode == run.rebuild

\* a translateI18nJson that translates the keys it already has
KeyStepAlwaysTranslates ==
    /\ run.pc = "i18n"
    /\ call.pc = "idle"
    /\ run.i <= Len(run.langs)
    /\ run.j <= Len(baseContent.keys)
    /\ RunRequest(baseContent.val[RunKey], RunLang)
    /\ UNCHANGED <<pairLog, ioPackageFile, i18nFiles>>
    /\ UNCHANGED cliVars

\* a translateI18nJson that writes the catalog file before every key
KeyStepWritesThrough ==
    /\ run.pc = "i18n"
    /\ call.pc = "idle"
    /\ run.i <= Len(run.langs)
    /\ run.j <= Len(baseContent.keys)
    /\ IF RebuildMode \/ ~Truthy(run.content, RunKey)
       THEN RunRequest(baseContent.val[RunKey], RunLang)
       ELSE /\ run' = [run EXCEPT !.j = run.j + 1]
            /\ UNCHANGED <<moduleVars, call, last, runLog>>
    /\ i18nFiles' = IF RunLang \in DOMAIN i18nFiles
                    THEN [i18nFiles EXCEPT ![RunLang] = run.content]
                    ELSE i18nFiles @@ (RunLang :> run.content)
    /\ UNCHANGED <<pairLog, ioPackageFile>>
    /\ UNCHANGED cliVars

\* a translateI18nJson that does not await its translateText calls
KeyStepFanOut ==
    /\ run.pc = "i18n"
    /\ run.i <= Len(run.langs)
    /\ run.j <= Len(baseContent.keys)
    /\ run' = [run EXCEPT !.j = run.j + 1]
    /\ runLog' = IF RebuildMode \/ ~Truthy(run.content, RunKey)
                 THEN LogRequested(runLog)
                 ELSE runLog
    /\ UNCHANGED <<moduleVars, call, last>>
    /\ UNCHANGED <<pairLog, ioPackageFile, i18nFiles>>
    /\ UNCHANGED cliVars

\* translateI18nJson: one entry of baseContent
KeyStep ==
    /\ run.pc = "i18n"
    /\ call.pc = "idle"
    /\ run.i <= Len(run.langs)
    /\ run.j <= Len(baseContent.keys)
    /\ IF RebuildMode \/ ~Truthy(run.content, RunKey)
       THEN RunRequest(baseContent.val[RunKey], RunLang)
       ELSE /\ run' = [run EXCEPT !.j = run.j + 1]
            /\ UNCHANGED <<moduleVars, call, last, runLog>>
    /\ UNCHANGED <<pairLog, ioPackageFile, i18nFiles>>
    /\ UNCHANGED cliVars

\* translateI18n: writeJson(file, translation), then the next language
LanguageWrite ==
    /\ run.pc = "i18n"
    /\ call.pc = "idle"
    /\ run.i <= Len(run.langs)
    /\ run.j > Len(baseContent.keys)
    /\ i18nFiles' = IF RunLang \in DOMAIN i18nFiles
                    THEN [i18nFiles EXCEPT ![RunLang] = run.content]
                    ELSE i18nFiles @@ (RunLang :> run.content)
    /\ run' = [run EXCEPT !.i = run.i + 1, !.j = 1,
                   !.content = IF run.i < Len(run.langs)
                               THEN Loaded(i18nFiles, run.langs[run.i + 1])
                               ELSE EmptyCatalog]
    /\ UNCHANGED <<moduleVars, call, last, pairLog, ioPackageFile, runLog>>
    /\ UNCHANGED cliVars

\* handleTranslateCommand returns
TranslateDone ==
    /\ run.pc = "i18n"
    /\ call.pc = "idle"
    /\ run.i > Len(run.langs)
    /\ run' = [run EXCEPT !.pc = "done", !.content = EmptyCatalog,
                   !.common = <<>>]
    /\ UNCHANGED <<moduleVars, call, last, pairLog, ioPackageFile, i18nFiles,
                   runLog>>
    /\ UNCHANGED cliVars

RunErrors ==
    {RateLimitedError(Undefined, NoHeader),
     RateLimitedError(Num(1), NoHeader),
     PlainError}

RunResolves ==
    /\ \E v \in {VariantNames[1]} : ProviderResolves(v)
    /\ RunCompleted
    /\ UNCHANGED <<pairLog, ioPackageFile, i18nFiles>>
    /\ UNCHANGED cliVars

RunRejects ==
    /\ \E e \in RunErrors : ProviderRejects(e)
    /\ RunCompleted
    /\ UNCHANGED <<pairLog, ioPackageFile, i18nFiles>>
    /\ UNCHANGED cliVars

RunRetryTimer ==
    /\ RetryTimerFires
    /\ UNCHANGED <<pairLog, runVars>>
    /\ UNCHANGED cliVars

\* a test calls translateText itself between two commands
DirectRequest ==
    /\ Between
    /\ TranslateTextBegin("test", Hello, "ru")
    /\ UNCHANGED <<pairLog, runVars>>
    /\ UNCHANGED cliVars

\* resetRateLimitState() between two commands
ResetBetween ==
    /\ Between
    /\ resetRateLimitState
    /\ runLog' = [runLog EXCEPT !.resetSeen = TRUE]
    /\ UNCHANGED <<pairLog, ioPackageFile, i18nFiles, run>>
    /\ UNCHANGED cliVars

\* setRateLimitState(true) between two commands
ThrottleBetween ==
    /\ Between
    /\ setRateLimitState(TRUE, Undefined)
    /\ UNCHANGED <<pairLog, runVars>>
    /\ UNCHANGED cliVars

\* the next command runs in a new process: translate.ts is loaded afresh
NewProcess ==
    /\ Between
    /\ call.pc = "idle"
    /\ translationCache' = EmptyMap
    /\ isRateLimited' = FALSE
    /\ rateLimitRetryAfter' = Undefined
    /\ rateLimitMaxWaitTime' = DefaultMaxWaitTime
    /\ translationsSkippedDueToRateLimit' = FALSE
    /\ creator' = "undefined"
    /\ last' = [NoOutcome EXCEPT !.op = "process start"]
    /\ UNCHANGED <<call, pairLog, runVars>>
    /\ UNCHANGED cliVars

\* content.common of io-package.json: its translatable objects in the order
\* translateIoPackage walks them
NoCommon == <<>>
DescCommon ==
    <<[field |-> "desc", obj |-> Catalog2("en", Hello, "ru", Prior),
       baseText |-> <<>>]>>
TitleCommon ==
    <<[field |-> "titleLang", obj |-> EmptyCatalog, baseText |-> World]>>

\* the adapter directories the command is run in: io-package.json and the
\* catalog files found in the i18n directory
Projects ==
    {[package |-> NoCommon,
      files |-> ("en" :> Catalog2("b", Hello, "a", World))],
     [package |-> DescCommon,
      files |-> ("en" :> Catalog2("a", Hello, "b", <<>>))
                    @@ ("de" :> Catalog1("a", Prior))],
     [package |-> TitleCommon,
      files |-> ("en" :> Catalog1("a", <<WS>>))
                    @@ ("ru" :> Catalog1("a", <<>>))],
     [package |-> DescCommon,
      files |-> ("en" :> Catalog2("b", Hello, "a", World))
                    @@ ("ru" :> Catalog1("a", <<>>))]}

InitRun ==
    /\ InitModule
    /\ InitCli
    /\ \E p \in Projects :
          /\ ioPackageFile = p.package
          /\ i18nFiles = p.files
    /\ run = IdleRun
    /\ runLog = NoRunLog

NextRun ==
    \/ StartTranslate
    \/ PackageStep
    \/ PackageWrite
    \/ KeyStep
    \/ LanguageWrite
    \/ TranslateDone
    \/ RunResolves
    \/ RunRejects
    \/ RunRetryTimer
    \/ DirectRequest
    \/ ResetBetween
    \/ ThrottleBetween
    \/ NewProcess

SpecRun == InitRun /\ [][NextRun]_vars

(***************************************************************************)
(* Two translateText calls of one process, interleaved at their awaits.    *)
(***************************************************************************)
\* the event loop goes on with the other call: each action of translate.ts
\* is a step of the call in `call`
Switch ==
    /\ call # peer
    /\ call' = peer
    /\ peer' = call
    /\ UNCHANGED <<moduleVars, last, pairLog, runVars, env, selection, exists,
                   cli, wordsFile>>

NextInterleave ==
    \/ DirectRequest
    \/ RunResolves
    \/ RunRejects
    \/ RunRetryTimer
    \/ ResetBetween
    \/ Switch

SpecInterleave == Init /\ [][NextInterleave]_vars

(***************************************************************************)
(* The translate command with the rebuild option.                          *)
(***************************************************************************)

\* handleTranslateCommand is called after parseOptions({rebuild: true}): the
\* governor is reset at the start of a rebuild
StartRebuild ==
    /\ Between
    /\ resetRateLimitState
    /\ run' = [IdleRun EXCEPT !.pc = "ioPackage", !.common = ioPackageFile,
                   !.rebuild = TRUE]
    /\ runLog' = [NoRunLog EXCEPT !.prev = run.pc, !.gaps = runLog.skipped,
                      !.startPackage = ioPackageFile,
                      !.startFiles = i18nFiles]
    /\ UNCHANGED <<pairLog, ioPackageFile, i18nFiles>>
    /\ UNCHANGED cliVars

\* the adapter directories of the rebuilds: catalogs with corrupted values
RebuildProjects ==
    {[package |-> NoCommon,
      files |-> ("en" :> Catalog2("b", Hello, "a", World))
                    @@ ("de" :> Catalog2("a", Prior, "b", Prior))],
     [package |-> DescCommon,
      files |-> ("en" :> Catalog2("a", Hello, "b", <<>>))
                    @@ ("de" :> Catalog2("b", Prior, "a", Prior))
                    @@ ("ru" :> Catalog1("a", Prior))]}

InitRebuild ==
    /\ InitModule
    /\ InitCli
    /\ \E p \in RebuildProjects :
          /\ ioPackageFile = p.package
          /\ i18nFiles = p.files
    /\ run = IdleRun
    /\ runLog = NoRunLog

NextRebuild ==
    \/ StartRebuild
    \/ StartTranslate
    \/ PackageStep
    \/ PackageWrite
    \/ KeyStep
    \/ LanguageWrite
    \/ TranslateDone
    \/ RunResolves
    \/ RunRejects
    \/ RunRetryTimer
    \/ ThrottleBetween

SpecRebuild == InitRebuild /\ [][NextRebuild]_vars

(***************************************************************************)
(* translate-adapter-handlers.ts: words.js and the to-json and to-words    *)
(* commands.  words.js is held as the object literals its text consists    *)
(* of: a dictionary whose values are the bodies of the string literals.    *)
(***************************************************************************)
QUOTE == "\""
BS == "\\"

\* item.replace(/"/g, '\\"')
RECURSIVE EscapeQuotes(_)
EscapeQuotes(item) ==
    IF item = <<>> THEN <<>>
    ELSE IF Head(item) = QUOTE
    THEN <<BS, QUOTE>> \o EscapeQuotes(Tail(item))
    ELSE <<Head(item)>> \o EscapeQuotes(Tail(item))

\* the value of a string literal with body lit as `new Function` reads it: a
\* backslash makes the next character part of the value, a quote that no
\* backslash precedes ends the literal early, and a backslash at the end
\* takes the closing quote (both make the text a syntax error)
RECURSIVE ParseLiteral(_, _)
ParseLiteral(lit, acc) ==
    IF lit = <<>> THEN [ok |-> TRUE, value |-> acc]
    ELSE IF Head(lit) = QUOTE THEN [ok |-> FALSE, value |-> <<>>]
    ELSE IF Head(lit) = BS
    THEN IF Len(lit) = 1
         THEN [ok |-> FALSE, value |-> <<>>]
         ELSE ParseLiteral(Tail(Tail(lit)), Append(acc, lit[2]))
    ELSE ParseLiteral(Tail(lit), Append(acc, Head(lit)))

\* parseWordJs(await readFile(words)): throws when the file is not there or
\* its text is no JavaScript
ParseOk(file) ==
    /\ file.present
    /\ \A w \in DOMAIN file.data.val :
          \A l \in DOMAIN file.data.val[w].val :
              ParseLiteral(file.data.val[w].val[l], <<>>).ok

\* the dictionary the text of the file evaluates to
parseWordJs(file) ==
    [keys |-> file.data.keys,
     val |-> [w \in DOMAIN file.data.val |->
                 [keys |-> file.data.val[w].keys,
                  val |-> [l \in DOMAIN file.data.val[w].val |->
                              ParseLiteral(file.data.val[w].val[l],
                                           <<>>).value]]]]

\* createWordsJs(data)
createWordsJs(data) ==
    [keys |-> data.keys,
     val |-> [w \in DOMAIN data.val |->
                 [keys |-> data.val[w].keys,
                  val |-> [l \in DOMAIN data.val[w].val |->
                              EscapeQuotes(data.val[w].val[l])]]]]

\* keys.sort()
SortKeys(keys) ==
    LET Among(k) == \E n \in DOMAIN keys : keys[n] = k
    IN  SelectSeq(<<"a", "b", "c">>, Among)

\* adminWords2languages: the catalog of language lang made of dictionary
\* data: every word that has an entry, with its entry for lang or ""
CatalogOf(data, lang) ==
    LET HasEntry(w) == data.val[w].keys # <<>>
        words == SortKeys(SelectSeq(data.keys, HasEntry))
    IN  [keys |-> words,
         val |-> [w \in {words[n] : n \in DOMAIN words} |->
                     IF lang \in DOMAIN data.val[w].val
                     THEN data.val[w].val[lang]
                     ELSE <<>>]]

\* the keys of sequence s that are not in sequence t
Without(s, t) ==
    LET Absent(k) == \A n \in DOMAIN t : t[n] # k
    IN  SelectSeq(s, Absent)

\* the keys of the catalogs of the languages in langs, each once, in the
\* order adminLanguages2words meets them
RECURSIVE KeysOfFiles(_, _)
KeysOfFiles(files, langs) ==
    IF langs = <<>> THEN <<>>
    ELSE LET before == KeysOfFiles(files, SubSeq(langs, 1, Len(langs) - 1))
             lang == langs[Len(langs)]
         IN  before \o Without(files[lang].keys, before)

\* adminLanguages2words: newWords after the loop over the language files
NewWordsOf(files) ==
    LET IsFile(l) == l \in DOMAIN files
        \* the order in which glob lists the language files
        found == SelectSeq(<<"de", "en", "ru">>, IsFile)
        keys == KeysOfFiles(files, found)
    IN  [keys |-> keys,
         val |-> [w \in {keys[n] : n \in DOMAIN keys} |->
                     [keys |-> translateLanguages,
                      val |-> [l \in Languages |->
                                  IF l \in DOMAIN files /\ w \in DOMAIN files[l].val
                                  THEN files[l].val[w]
                                  ELSE <<>>]]]]

\* adminLanguages2words: newWords after the merge with the existing words
Merged(newWords, existingWords) ==
    LET taken == Without(existingWords.keys, newWords.keys)
    IN  [keys |-> newWords.keys \o taken,
         val |-> [w \in DOMAIN newWords.val \cup {taken[n] : n \in DOMAIN taken}
                     |-> IF w \in DOMAIN newWords.val
                         THEN newWords.val[w]
                         ELSE existingWords.val[w]]]

\* parseOptions: io-package.json and the admin directory must be there
ParseOptions ==
    /\ cli.pc = "start"
    /\ cli' = IF ~exists.ioPackage
              THEN [cli EXCEPT !.pc = "died", !.message = "Couldn't find file"]
              ELSE IF ~exists.admin
              THEN [cli EXCEPT !.pc = "died",
                               !.message = "Couldn't find directory"]
              ELSE [cli EXCEPT !.pc = "parsed"]
    /\ UNCHANGED <<moduleVars, call, last, pairLog, runVars, env, selection,
                   exists, wordsFile, peer>>

\* handleToJsonCommand: adminWords2languages writes a sorted catalog for every
\* language; a text of words.js that cannot be read ends the command
handleToJsonCommand ==
    /\ cli.pc = "parsed"
    /\ Between
    /\ IF ~wordsFile.present
       THEN /\ cli' = [cli EXCEPT !.pc = "died", !.command = "to-json",
                           !.message = "Couldn't find words file"]
            /\ UNCHANGED i18nFiles
       ELSE IF ~ParseOk(wordsFile)
       THEN /\ cli' = [cli EXCEPT !.pc = "died", !.command = "to-json",
                           !.message = "SyntaxError"]
            /\ UNCHANGED i18nFiles
       ELSE /\ i18nFiles' =
                   [l \in Languages \cup DOMAIN i18nFiles |->
                       IF l \in Languages
                       THEN CatalogOf(parseWordJs(wordsFile), l)
                       ELSE i18nFiles[l]]
            /\ cli' = [cli EXCEPT !.command = "to-json", !.message = "none",
                           !.warnings = {}, !.trip = "json",
                           !.original = parseWordJs(wordsFile)]
    /\ UNCHANGED <<moduleVars, call, last, pairLog, ioPackageFile, run, runLog,
                   env, selection, exists, wordsFile, peer>>

\* handleToWordsCommand: adminLanguages2words
handleToWordsCommand ==
    /\ cli.pc = "parsed"
    /\ Between
    /\ LET newWords == NewWordsOf(i18nFiles)
           merged == IF ParseOk(wordsFile)
                     THEN Merged(newWords, parseWordJs(wordsFile))
                     ELSE newWords
           taken == Without(merged.keys, newWords.keys)
           \* console.warn(`Missing "${lang}": ${key}`), in the loop over the
           \* entries of existingWords
           checked == IF ParseOk(wordsFile)
                      THEN DOMAIN parseWordJs(wordsFile).val
                      ELSE {}
       IN  /\ wordsFile' = [present |-> TRUE, data |-> createWordsJs(merged)]
           /\ cli' = [cli EXCEPT !.command = "to-words", !.message = "none",
                          !.warnings = {taken[n] : n \in DOMAIN taken},
                          !.missing = {<<w, l>> \in checked \X Languages :
                                          ~Truthy(merged.val[w], l)},
                          !.trip = IF cli.trip = "json" THEN "round"
                                   ELSE "words",
                          !.previous = wordsFile]
    /\ UNCHANGED <<moduleVars, call, last, pairLog, runVars, env, selection,
                   exists, peer>>

Entry3(en, de, ru) ==
    [keys |-> allLanguages, val |-> ("en" :> en) @@ ("de" :> de) @@ ("ru" :> ru)]

\* the words.js files the commands start with; their string literals are
\* the texts Hello, "", a quote, a backslash, and a backslash before Hello;
\* a word may have some languages only, or none ("c": {})
WordsInputs ==
    LET Literals ==
            {Hello, <<>>, <<BS, QUOTE>>, <<BS, BS>>, <<BS, BS>> \o Hello}
    IN
    {NoWordsFile}
    \cup {[present |-> TRUE, data |-> Catalog1("b", Entry3(Hello, de, ru))] :
             de \in Literals, ru \in Literals}
    \cup {[present |-> TRUE,
           data |-> Catalog2("b", Entry3(Hello, World, World),
                             "a", Catalog1("en", World))],
          [present |-> TRUE,
           data |-> Catalog2("b", Entry3(Hello, World, World),
                             "c", EmptyCatalog)]}

CatalogInputs ==
    {EmptyMap,
     ("en" :> Catalog1("c", Hello)) @@ ("de" :> Catalog1("c", World)),
     ("en" :> Catalog2("c", Hello, "a", World))
         @@ ("ru" :> Catalog1("a", <<BS>>))}

InitWords ==
    /\ InitModule
    /\ env = NoEnv
    /\ selection = NotSelected
    /\ exists = [ioPackage |-> TRUE, admin |-> TRUE]
    /\ cli = IdleCli
    /\ wordsFile \in WordsInputs
    /\ peer = IdleCall
    /\ ioPackageFile = <<>>
    /\ i18nFiles \in CatalogInputs
    /\ run = IdleRun
    /\ runLog = NoRunLog

NextWords ==
    \/ ParseOptions
    \/ handleToJsonCommand
    \/ handleToWordsCommand

SpecWords == InitWords /\ [][NextWords]_vars

(***************************************************************************)
(* One command of the command line tool in a process of its own.           *)
(***************************************************************************)
\* the command of this process, when none has been given to it yet; the
\* `all` command begins as the translate command does
TranslateCommand ==
    /\ cli.pc = "parsed" /\ cli.command = "none" /\ run.pc = "idle"
    /\ StartTranslate

ToJsonCommand ==
    /\ cli.pc = "parsed" /\ cli.command = "none" /\ run.pc = "idle"
    /\ ~cli.all
    /\ handleToJsonCommand

ToWordsCommand ==
    /\ cli.pc = "parsed" /\ cli.command = "none" /\ run.pc = "idle"
    /\ ~cli.all
    /\ handleToWordsCommand

\* handleAllCommand after `await handleTranslateCommand()`:
\* if (existsSync(words)) await handleToWordsCommand()
AllToWords ==
    /\ cli.all
    /\ run.pc = "done"
    /\ cli.command = "none"
    /\ wordsFile.present
    /\ handleToWordsCommand

\* an `all` command that converts to JSON first
AllToJsonFirst ==
    /\ cli.all
    /\ run.pc = "done"
    /\ cli.command = "none"
    /\ wordsFile.present
    /\ handleToJsonCommand

\* handleAllCommand after `await handleToWordsCommand()`:
\* await handleToJsonCommand()
AllToJson ==
    /\ cli.all
    /\ cli.command = "to-words"
    /\ handleToJsonCommand

\* interceptErrors: a handler that rejects ends the process through die()
interceptErrors ==
    /\ cli.pc = "parsed"
    /\ run.pc \in {"failed", "aborted"}
    /\ cli' = [cli EXCEPT !.pc = "died", !.command = "translate",
                   !.message = IF run.pc = "failed" THEN "ENOENT"
                               ELSE "TranslationSkippedError"]
    /\ UNCHANGED <<moduleVars, call, last, pairLog, runVars, env, selection,
                   exists, wordsFile, peer>>

\* the directories the tool is started in: with and without the base
\* catalog, and one whose io-package.json has a description "" and a title
\* " "
CliProjects ==
    {[package |-> DescCommon, files |-> EmptyMap],
     [package |-> NoCommon, files |-> ("de" :> Catalog1("a", Prior))],
     [package |-> DescCommon, files |-> ("en" :> Catalog1("a", Hello))],
     [package |-> <<[field |-> "titleLang", obj |-> Catalog1("en", <<WS>>),
                     baseText |-> <<>>],
                    [field |-> "desc", obj |-> Catalog1("en", <<>>),
                     baseText |-> <<>>]>>,
      files |-> ("en" :> Catalog1("a", Hello))]}

InitCommand ==
    /\ InitModule
    /\ env = NoEnv
    /\ selection = NotSelected
    /\ exists \in [{"ioPackage", "admin"} -> BOOLEAN]
    /\ peer = IdleCall
    /\ cli \in {IdleCli, [IdleCli EXCEPT !.all = TRUE]}
    /\ wordsFile \in {NoWordsFile,
                      [present |-> TRUE,
                       data |-> Catalog1("b", Entry3(Hello, World, <<>>))]}
    /\ \E p \in CliProjects :
          /\ ioPackageFile = p.package
          /\ i18nFiles = p.files
    /\ run = IdleRun
    /\ runLog = NoRunLog

NextCli ==
    \/ ParseOptions
    \/ TranslateCommand
    \/ PackageStep
    \/ PackageWrite
    \/ KeyStep
    \/ LanguageWrite
    \/ TranslateDone
    \/ RunResolves
    \/ RunRejects
    \/ RunRetryTimer
    \/ interceptErrors
    \/ ToJsonCommand
    \/ ToWordsCommand
    \/ AllToWords
    \/ AllToJson

SpecCli == InitCommand /\ [][NextCli]_vars

(***************************************************************************)
(* The selection of the translator, for every environment.                 *)
(***************************************************************************)
InitSelect ==
    /\ InitModule
    /\ env \in [{"TESTING", "DEEPL_API_KEY", "GOOGLE_APPLICATION_CREDENTIALS"}
                    -> EnvValues]
    /\ selection = NotSelected
    /\ exists = [ioPackage |-> TRUE, admin |-> TRUE]
    /\ cli = IdleCli
    /\ wordsFile = NoWordsFile
    /\ peer = IdleCall
    /\ ioPackageFile = <<>>
    /\ i18nFiles = EmptyMap
    /\ run = IdleRun
    /\ runLog = NoRunLog

NextSelect ==
    \/ GetTranslator
    \/ DeeplInitResolves
    \/ DeeplInitRejects
    \/ GoogleInitResolves
    \/ GoogleInitRejects

SpecSelect == InitSelect /\ [][NextSelect]_vars

(***************************************************************************)
(* Claims about translateText and the governor (Spec).                     *)
(***************************************************************************)
\* the call that just completed
Completed == last.op = "translateText"

\* the retryAfter a rate-limit error carries: the number given to
\* RateLimitedError, or the number in its retry-after header
SignalRetryAfter(e) ==
    IF e.cls = "RateLimitedError" /\ e.retryAfter.k = "number"
    THEN e.retryAfter
    ELSE IF e.header.present /\ ParseInt(e.header.chars).k = "number"
    THEN ParseInt(e.header.chars)
    ELSE Undefined

SkippedUnchanged ==
    /\ last.kind = "throw"
    /\ last.retryAfter = last.before.rateLimitRetryAfter
    /\ last.invocations = 0
    /\ getRateLimitState = last.before

\* C1 as stated: while Throttled, a translateText call for a non-English
\* language and a non-empty text that is not cached throws
\* TranslationSkippedError with the recorded retryAfter, invokes no provider
\* and leaves the governor unchanged.
C1_AsStated ==
    (Completed /\ last.before.isRateLimited /\ last.lang # "en"
        /\ last.text # <<>> /\ ~last.cached)
    => SkippedUnchanged

\* C1 amended: the same for every text that is not blank (not empty after
\* trim()); a whitespace-only text is returned unchanged instead.
C1_ThrottledCallSkipped ==
    (Completed /\ last.before.isRateLimited /\ last.lang # "en"
        /\ Trim(last.text) # <<>> /\ ~last.cached)
    => SkippedUnchanged

C1_Witness ==
    /\ Completed /\ last.before.isRateLimited /\ last.lang = "ru"
    /\ last.text = World /\ ~last.cached
    /\ last.kind = "throw" /\ last.retryAfter = Num(LongRetryAfter)

\* C2: a translateText call for a cached (text, targetLang) pair returns the
\* cached translation, invokes no provider and leaves the governor as it
\* was, Open or Throttled.
C2_CacheHitBypassesGovernor ==
    (Completed /\ last.cached)
    => /\ last.kind = "return"
       /\ CacheHas(translationCache, last.lang, last.text)
       /\ last.value = translationCache[last.lang][last.text]
       /\ last.invocations = 0
       /\ getRateLimitState = last.before

C2_Witness ==
    /\ Completed /\ last.cached /\ last.before.isRateLimited
    /\ last.kind = "return" /\ last.value = Translated(Hello, "de", "t2")

\* the first error of a call allows the retry, as the claim words it
RetryAllowed(e, maxWait) ==
    /\ IsRateLimitSignal(e)
    /\ maxWait > 0
    /\ SignalRetryAfter(e).k = "number"
    /\ SignalRetryAfter(e).n <= maxWait

\* C3: a RateLimited signal on the first attempt, with maxWaitSeconds > 0 and
\* a known retryAfter in 0..maxWaitSeconds (from a RateLimitedError or from a
\* header), makes the call wait retryAfter + 1 seconds and invoke the
\* provider exactly once more; no call invokes the provider more than twice.
C3_RetryOnceAfterWait ==
    /\ call.invocations <= 2
    /\ last.invocations <= 2
    /\ (Completed /\ RetryAllowed(last.sig1, last.maxWait))
       => /\ last.waited = SignalRetryAfter(last.sig1).n + 1
          /\ last.invocations = 2

\* the failing attempt does not allow a retry, as the claim words it
RetryRefused(e, retryCount, maxWait) ==
    /\ IsRateLimitSignal(e)
    /\ \/ retryCount >= 1
       \/ maxWait = 0
       \/ SignalRetryAfter(e) = Undefined
       \/ SignalRetryAfter(e).n > maxWait

\* C4: a RateLimited signal that allows no retry moves the governor to
\* Throttled, records the signal's retryAfter if known, sets the skip flag
\* and throws TranslationSkippedError carrying that retryAfter; with
\* maxWaitSeconds = 0 after exactly one provider invocation and no wait.
C4_RefusedRetryThrottles ==
    (Completed /\ RetryRefused(last.sig, last.retryCount, last.maxWait))
    => /\ isRateLimited
       /\ translationsSkippedDueToRateLimit
       /\ last.kind = "throw"
       /\ SignalRetryAfter(last.sig) # Undefined
          => /\ rateLimitRetryAfter = SignalRetryAfter(last.sig)
             /\ last.retryAfter = SignalRetryAfter(last.sig)
       /\ last.maxWait = 0 => (last.invocations = 1 /\ last.waited = 0)

\* C5: resetRateLimitState() yields isRateLimited = false,
\* rateLimitRetryAfter = undefined, translationsSkippedDueToRateLimit = false.
C5_ResetClearsAll ==
    last.op = "resetRateLimitState"
    => /\ isRateLimited = FALSE
       /\ rateLimitRetryAfter = Undefined
       /\ translationsSkippedDueToRateLimit = FALSE

C5_Witness ==
    /\ last.op = "resetRateLimitState"
    /\ last.before.isRateLimited
    /\ last.before.rateLimitRetryAfter = Num(1)
    /\ last.before.translationsSkippedDueToRateLimit

(***************************************************************************)
(* Claims about repeated requests (SpecRepeat).                            *)
(***************************************************************************)
OneInvocationSameValue ==
    /\ pairLog.inv1 + pairLog.inv2 = 1
    /\ pairLog.kind1 = "return"
    /\ pairLog.kind2 = "return"
    /\ pairLog.value2 = pairLog.value1

\* C6 as stated: two translateText requests for the same (text, targetLang)
\* pair, non-English and non-empty, result in exactly one provider
\* invocation, and the second returns the value of the first.
C6_AsStated == pairLog.n = 2 => OneInvocationSameValue

\* C6 amended: if the first request for the pair was answered by the
\* provider at its first attempt, a second request for the same pair
\* invokes the provider no further and returns the same value.
C6_SecondRequestFromCache ==
    (pairLog.n = 2 /\ pairLog.direct) => OneInvocationSameValue

C6_Witness ==
    /\ pairLog.n = 2 /\ pairLog.direct
    /\ pairLog.text = Hello /\ pairLog.lang = "de"
    /\ pairLog.value1 = Translated(Hello, "de", "t2")
    /\ pairLog.value2 = pairLog.value1
    /\ pairLog.inv2 = 0
    /\ isRateLimited

(***************************************************************************)
(* Claims about the translate command (SpecRun).                           *)
(***************************************************************************)
TargetLanguages ==
    {translateLanguages[n] : n \in DOMAIN translateLanguages} \ {"en"}

BaseKeys == {baseContent.keys[n] : n \in DOMAIN baseContent.keys}

\* the value of key k in the catalog file of language L: <<v>>, or <<>> when
\* the file or the key is not there
OnDisk(files, L, k) ==
    IF L \in DOMAIN files /\ k \in DOMAIN files[L].val
    THEN <<files[L].val[k]>>
    ELSE <<>>

\* key k of language L is on disk as it was when the command began
SameOnDisk(p) ==
    OnDisk(i18nFiles, p[1], p[2]) = OnDisk(runLog.startFiles, p[1], p[2])

\* key k of language L is on disk with the provider's translation
Filled(p) ==
    OnDisk(i18nFiles, p[1], p[2])
        = <<Translated(baseContent.val[p[2]], p[1], VariantNames[1])>>

RunOver == run.pc \in {"done", "aborted"}

\* C7: when translateText throws TranslationSkippedError at the translate
\* command, the command goes on with the remaining keys and languages: the
\* skipped translation never ends the command.
C7_SkipNeverAborts ==
    (last.owner = "run" /\ last.kind = "throw") => run.pc # "aborted"

\* C8 as stated: a key requested for a language while the governor is
\* throttled is on disk after the command as it was before (absent, or with
\* its prior value), and the next command after resetRateLimitState() fills
\* it with the provider's translation.
C8_AsStated ==
    /\ RunOver => \A p \in runLog.throttled : SameOnDisk(p)
    /\ (RunOver /\ runLog.afterReset) => \A p \in runLog.gaps : Filled(p)

\* C8 amended: a key whose translation was skipped for a language (the
\* governor was throttled, its text is not blank and not in the cache) is on
\* disk after the command as it was before, and a next command after
\* resetRateLimitState() that completes without a failing provider call has
\* filled it with the provider's translation.
C8_GapPreservedThenFilled ==
    /\ \A p \in runLog.skipped : SameOnDisk(p)
    /\ (run.pc = "done" /\ runLog.afterReset /\ ~runLog.fellBack)
           => \A p \in runLog.gaps : Filled(p)

C8_Witness ==
    /\ run.pc = "done"
    /\ runLog.prev = "aborted"
    /\ runLog.afterReset
    /\ ~runLog.fellBack
    /\ <<"de", "b">> \in runLog.gaps
    /\ OnDisk(runLog.startFiles, "de", "b") = <<>>
    /\ OnDisk(i18nFiles, "de", "b") = <<Translated(Hello, "de", "t1")>>

\* the catalogs are complete for the keys in ks, and those of new languages
\* hold the provider's translations
CompleteFor(ks) ==
    \A L \in TargetLanguages : \A k \in ks :
        /\ Truthy(Loaded(i18nFiles, L), k)
        /\ L \notin DOMAIN runLog.startFiles => Filled(<<L, k>>)

\* C9 as stated: when no request met a throttled governor, after the command
\* completed every key of the base catalog has a non-empty value in the
\* catalog of every target language, and the catalog of a language that had
\* no file holds the provider's translation of each key.
C9_AsStated ==
    (run.pc = "done" /\ runLog.throttled = {}) => CompleteFor(BaseKeys)

NonBlankKeys == {k \in BaseKeys : Trim(baseContent.val[k]) # <<>>}

\* C9 amended: when no request met a throttled governor and no provider call
\* failed, after the command completed every key of the base catalog whose
\* English text is not blank has a non-empty value in the catalog of every
\* target language, and the catalog of a language that had no file holds the
\* provider's translation of each such key.
C9_CompleteWhenNothingFailed ==
    (run.pc = "done" /\ runLog.throttled = {} /\ ~runLog.fellBack)
        => CompleteFor(NonBlankKeys)

C9_Witness ==
    /\ run.pc = "done"
    /\ runLog.throttled = {}
    /\ ~runLog.fellBack
    /\ baseContent = Catalog2("a", Hello, "b", <<>>)
    /\ "ru" \notin DOMAIN runLog.startFiles
    /\ OnDisk(i18nFiles, "ru", "a") = <<Translated(Hello, "ru", "t1")>>
    /\ OnDisk(i18nFiles, "ru", "b") = <<<<>>>>
    /\ OnDisk(i18nFiles, "de", "a") = <<Prior>>
    /\ runLog.invocations > 0

\* C10 as stated: a command that follows another one, the sources unchanged,
\* leaves the catalog files as the first one left them and requests no
\* translation for a key that has a value on disk.
C10_AsStated ==
    runLog.prev \in {"done", "aborted"}
        => (i18nFiles = runLog.startFiles /\ ~runLog.satisfied)

\* C10 amended: a command that follows a command that completed, the sources
\* unchanged, leaves the catalog files and io-package.json as the first one
\* left them, requests no translation for a key that has a value on disk,
\* invokes no provider and is not ended by a skipped translation.
C10_SecondRunChangesNothing ==
    runLog.prev = "done"
        => /\ i18nFiles = runLog.startFiles
           /\ ioPackageFile = runLog.startPackage
           /\ ~runLog.satisfied
           /\ runLog.invocations = 0
           /\ run.pc # "aborted"

C10_Witness ==
    /\ runLog.prev = "done"
    /\ run.pc = "done"
    /\ runLog.invocations = 0
    /\ isRateLimited
    /\ OnDisk(i18nFiles, "de", "b") = <<Translated(Hello, "de", "t1")>>
    /\ OnDisk(i18nFiles, "ru", "a") = <<Translated(World, "ru", "t1")>>

\* C11: a translate command never changes a value that is truthy in an
\* existing target catalog or in a translatable object of io-package.json,
\* and requests a translation only for a key or language whose value is
\* absent or falsy.
C11_ExistingValuesKept ==
    /\ ~runLog.satisfied
    /\ \A L \in DOMAIN runLog.startFiles \ {"en"} :
         \A k \in DOMAIN runLog.startFiles[L].val :
            Truthy(runLog.startFiles[L], k)
                => OnDisk(i18nFiles, L, k) = OnDisk(runLog.startFiles, L, k)
    /\ \A n \in DOMAIN runLog.startPackage :
         \A lang \in DOMAIN runLog.startPackage[n].obj.val :
            Truthy(runLog.startPackage[n].obj, lang)
                => /\ lang \in DOMAIN ioPackageFile[n].obj.val
                   /\ ioPackageFile[n].obj.val[lang]
                          = runLog.startPackage[n].obj.val[lang]

C11_Witness ==
    /\ run.pc = "done"
    /\ runLog.prev = "idle"
    /\ runLog.invocations > 0
    /\ OnDisk(runLog.startFiles, "de", "a") = <<Prior>>
    /\ OnDisk(i18nFiles, "de", "a") = <<Prior>>
    /\ OnDisk(i18nFiles, "ru", "a") = <<Translated(Hello, "ru", "t1")>>
    /\ ioPackageFile[1].obj.val["ru"] = Prior
    /\ ioPackageFile[1].obj.val["de"] = Translated(Hello, "de", "t1")

\* the catalogs of the target languages hold every key of the base catalog,
\* and none of them holds a corrupted value it held before the command
Rebuilt ==
    \A L \in DOMAIN runLog.startFiles \ {"en"} :
        \A k \in BaseKeys :
            /\ OnDisk(i18nFiles, L, k) # <<>>
            /\ OnDisk(runLog.startFiles, L, k) = <<Prior>>
                   => OnDisk(i18nFiles, L, k) # <<Prior>>

\* C12 as stated: after a translate command with rebuild = true, no key of
\* the base catalog retains the corrupted value it had in an existing target
\* catalog, and every key of the base catalog is present.
C12_AsStated == (RunOver /\ run.rebuild) => Rebuilt

\* C12 amended: after a translate command with rebuild = true that completed
\* (no translation was skipped in it), no key of the base catalog retains the
\* corrupted value it had in an existing target catalog, and every key of the
\* base catalog is present.
C12_RebuildReplacesCorrupted == (run.pc = "done" /\ run.rebuild) => Rebuilt

C12_Witness ==
    /\ run.pc = "done"
    /\ run.rebuild
    /\ OnDisk(runLog.startFiles, "de", "a") = <<Prior>>
    /\ OnDisk(runLog.startFiles, "de", "b") = <<Prior>>
    /\ OnDisk(i18nFiles, "de", "a") = <<Translated(World, "de", "t1")>>
    /\ OnDisk(i18nFiles, "de", "b") = <<Translated(Hello, "de", "t1")>>

\* C13: every catalog file a command wrote has its keys in lexicographic
\* order, also when the keys of the English base catalog are not sorted (the
\* target catalogs the projects start with are sorted).
C13_WrittenCatalogsSorted ==
    \A L \in DOMAIN i18nFiles \ {"en"} : IsSorted(i18nFiles[L].keys)

\* C14: translateText(text, "en") returns text unchanged for every text and
\* in every state of the governor and the cache, logs nothing, invokes no
\* provider and selects none, and leaves the cache and the governor as they
\* were.
C14_EnglishReturnedUnchanged ==
    [][(call.pc = "idle" /\ last'.op = "translateText" /\ last'.lang = "en")
          => /\ last'.kind = "return"
             /\ last'.value = last'.text
             /\ last'.log = "none"
             /\ last'.invocations = 0
             /\ call' = IdleCall
             /\ UNCHANGED moduleVars]_vars

C14_Witness ==
    /\ last.op = "translateText"
    /\ last.lang = "en"
    /\ last.text = <<>>
    /\ last.kind = "return"
    /\ last.value = <<>>
    /\ isRateLimited
    /\ rateLimitRetryAfter = Num(LongRetryAfter)
    /\ translationCache = EmptyMap

(***************************************************************************)
(* Claims about the selection of the translator (SpecSelect).              *)
(***************************************************************************)
Failed(t) == \E n \in DOMAIN selection.errors : selection.errors[n] = t

\* the translator the priority chain names: the mock if TESTING is set, else
\* DeepL if its key is set and its initialization did not fail, else Google
\* V3 if its credentials are set and its initialization did not fail, else
\* the legacy translator (set: set to a non-empty string)
ChainTranslator ==
    IF TruthyEnv(env.TESTING) THEN "testing"
    ELSE IF TruthyEnv(env.DEEPL_API_KEY) /\ ~Failed("deepl") THEN "deepl"
    ELSE IF TruthyEnv(env.GOOGLE_APPLICATION_CREDENTIALS) /\ ~Failed("googleV3")
    THEN "googleV3"
    ELSE "legacy"

\* C15: the selection yields the translator the priority chain names, and
\* exactly one: with TESTING set no other translator is initialized, a
\* translator is initialized only if its variable is set, at most once and
\* in the order DeepL, Google V3, and every failed initialization falls
\* through to the next step instead of failing the selection.
C15_PriorityChain ==
    /\ selection.pc = "done" => selection.translator = ChainTranslator
    /\ selection.pc # "done" => selection.translator = "none"
    /\ TruthyEnv(env.TESTING) => selection.tried = <<>>
    /\ selection.tried \in {<<>>, <<"deepl">>, <<"googleV3">>,
                            <<"deepl", "googleV3">>}
    /\ \A n \in DOMAIN selection.errors :
          \E m \in DOMAIN selection.tried :
              selection.tried[m] = selection.errors[n]
    /\ selection.pc = "none" <=> creator = "undefined"

C15_Witness ==
    /\ selection.pc = "done"
    /\ selection.translator = "legacy"
    /\ selection.errors = <<"deepl", "googleV3">>
    /\ ~TruthyEnv(env.TESTING)
    /\ env.TESTING.set
    /\ selection.awaiters = MaxAwaiters

(***************************************************************************)
(* Claims about provider errors and empty texts in a command (SpecRun).    *)
(***************************************************************************)
\* C16: when the provider fails with an error that is no rate limiting for
\* a key of a catalog, the key is left out of the catalog of that language:
\* the English text is not written as its value.
C16_FailedKeyLeftAbsent ==
    \A p \in runLog.failed :
        OnDisk(i18nFiles, p[1], p[2]) # <<baseContent.val[p[2]]>>

\* C17: for a key of the base catalog whose English text is empty or
\* whitespace only, the command logs an 'Empty source text' error that names
\* the key, gets the text itself as the result, invokes no provider and is
\* not ended, whatever the state of the governor is.
C17_EmptyTextLoggedWithKey ==
    /\ \A p \in runLog.empty : p \in runLog.named
    /\ (last.op = "translateText" /\ last.owner = "run"
           /\ last.lang # "en" /\ Trim(last.text) = <<>>)
          => /\ last.kind = "return"
             /\ last.value = last.text
             /\ last.log = "Empty source text"
             /\ last.invocations = 0
             /\ run.pc # "aborted"

(***************************************************************************)
(* Claims about words.js (SpecWords).                                      *)
(***************************************************************************)
\* the (key, language, value) triples of a dictionary
Triples(data) ==
    UNION {{<<w, l, data.val[w].val[l]>> : l \in DOMAIN data.val[w].val} :
              w \in DOMAIN data.val}

\* every key has an entry for every selected language
Complete(data) ==
    \A w \in DOMAIN data.val : DOMAIN data.val[w].val = Languages

\* C19: for a dictionary in which every key has an entry for every selected
\* language, to-json followed by to-words leaves a words.js that reads back
\* as the same set of (key, language, value) triples.
C19_RoundTrip ==
    (cli.trip = "round" /\ Complete(cli.original))
        => /\ ParseOk(wordsFile)
           /\ Triples(parseWordJs(wordsFile)) = Triples(cli.original)

\* the keys of the previous words.js that no catalog has
OnlyInPrevious ==
    {w \in DOMAIN cli.previous.data.val :
        \A l \in DOMAIN i18nFiles : w \notin DOMAIN i18nFiles[l].val}

\* the entry of word w in the words.js written reads as its entry in the
\* previous words.js
SameEntry(w) ==
    /\ w \in DOMAIN wordsFile.data.val
    /\ \A l \in DOMAIN cli.previous.data.val[w].val :
          /\ l \in DOMAIN wordsFile.data.val[w].val
          /\ ParseLiteral(wordsFile.data.val[w].val[l], <<>>).ok
          /\ ParseLiteral(wordsFile.data.val[w].val[l], <<>>).value
                 = ParseLiteral(cli.previous.data.val[w].val[l], <<>>).value

\* C20: after to-words with a previous words.js, every key of the previous
\* dictionary is in the words.js written, and every key that no catalog has
\* is there with its previous values and has been warned about.
C20_PreviousKeysKept ==
    (cli.command = "to-words" /\ cli.previous.present)
        => /\ \A w \in DOMAIN cli.previous.data.val :
                  w \in DOMAIN wordsFile.data.val
           /\ \A w \in OnlyInPrevious :
                  /\ w \in cli.warnings
                  /\ ParseOk(cli.previous) => SameEntry(w)

(***************************************************************************)
(* Claims about one command of the command line tool (SpecCli).            *)
(***************************************************************************)
\* what the tool says when something it needs is not there
MissingInput ==
    {"Couldn't find file", "Couldn't find directory",
     "Couldn't find words file", "ENOENT"}

\* C18: when the tool ends because io-package.json, the admin directory, the
\* English base catalog (translate) or words.js (to-json) is missing, no
\* provider has been selected or called and no file has been changed.
C18_MissingInputAbortsFirst ==
    (cli.pc = "died" /\ cli.message \in MissingInput)
        => /\ creator = "undefined"
           /\ runLog.invocations = 0
           /\ cli.trip = "none"
           /\ \/ run = IdleRun
              \/ /\ ioPackageFile = runLog.startPackage
                 /\ i18nFiles = runLog.startFiles

\* handleAllCommand has returned
AllReturned ==
    /\ cli.all
    /\ cli.pc = "parsed"
    /\ run.pc = "done"
    /\ \/ cli.command = "to-json"
       \/ cli.command = "none" /\ ~wordsFile.present

\* C21 as stated: an `all` command that has returned has run to-words and
\* then to-json after translate.
C21_AsStated ==
    AllReturned => (cli.command = "to-json" /\ cli.previous.present)

\* C21: in an `all` command, to-words and to-json start only when translate
\* is over, to-json starts only when to-words has written words.js, and
\* neither runs when there is no words.js after translate.
C21_AllInOrder ==
    cli.all
        => /\ cli.command \in {"to-words", "to-json"} => run.pc = "done"
           /\ cli.command = "to-json"
                  => (cli.previous.present /\ wordsFile.present)
           /\ ~wordsFile.present => cli.command \notin {"to-words", "to-json"}

C21_Witness ==
    /\ cli.all
    /\ cli.pc = "parsed"
    /\ cli.command = "to-json"
    /\ cli.previous.present
    /\ run.pc = "done"
    /\ runLog.invocations > 0

(***************************************************************************)
(* Claims about io-package.json (SpecRun).                                 *)
(***************************************************************************)
\* translateIoPackage of this run has written io-package.json
PackageWritten ==
    \/ run.pc \in {"i18n", "done", "failed"}
    \/ run.pc = "aborted" /\ run.langs # <<>>

\* C22: in the io-package.json a translate run has written, every object
\* with an English source text has a string for every language; the strings
\* it had are unchanged, and a language whose translation failed for another
\* reason than rate limiting holds the English text.
C22_PackageFilled ==
    PackageWritten
        => \A i \in DOMAIN runLog.startPackage :
              LET before == runLog.startPackage[i]
                  after == ioPackageFile[i].obj
              IN  TruthyStr(SourceText(before))
                      => \A lang \in Languages :
                            /\ Truthy(after, lang)
                            /\ Truthy(before.obj, lang)
                                   => after.val[lang] = before.obj.val[lang]
                            /\ <<lang, i>> \in runLog.failedFields
                                   => after.val[lang] = SourceText(before)

\* a run wrote io-package.json after one translation failed and one
\* succeeded
C22_Witness ==
    /\ PackageWritten
    /\ runLog.failedFields # {}
    /\ \E i \in DOMAIN runLog.startPackage :
          \E lang \in Languages :
                /\ <<lang, i>> \notin runLog.failedFields
                /\ ~Truthy(runLog.startPackage[i].obj, lang)
                /\ ioPackageFile[i].obj.val[lang]
                       # SourceText(runLog.startPackage[i])

(***************************************************************************)
(* Claims about getTranslator (SpecSelect).                                *)
(***************************************************************************)
\* C23: createTranslator runs at most once in a process, and every caller of
\* getTranslator, also one that arrives while the initialization is pending,
\* waits for that one run and gets its translator.
C23_CreatedOnce ==
    /\ selection.started <= 1
    /\ selection.awaiters > 0
           => /\ creator = "promise"
              /\ selection.started = 1
              /\ Len(selection.tried) <= 2

\* two callers wait for the same pending initialization
C23_Witness ==
    /\ selection.awaiters = 2
    /\ selection.pc = "deeplInit"
    /\ selection.started = 1

(***************************************************************************)
(* Claims about the order of the calls of a translate run (SpecRun).       *)
(***************************************************************************)
\* C24: a translate run has at most one translateText call in flight, its
\* own, and so at most one provider invocation: it requests the next
\* translation only when the one before has returned or thrown.
C24_OneCallInFlight ==
    /\ runLog.inflight \in {0, 1}
    /\ run.pc \in {"ioPackage", "i18n"}
           => /\ call.pc # "idle" => call.owner = "run"
              /\ runLog.inflight = 1 <=> call.pc # "idle"

\* the run waits for the retry of its one call
C24_Witness ==
    /\ run.pc = "i18n"
    /\ runLog.inflight = 1
    /\ call.pc = "waiting"
    /\ runLog.invocations > 0

\* C25: after to-json, the catalog of every language has an entry for every
\* key of the dictionary: the dictionary's value for the language, or "" when
\* the dictionary has none.
C25_EveryKeyInEveryCatalog ==
    (cli.command = "to-json" /\ cli.pc = "parsed")
        => \A w \in DOMAIN cli.original.val :
              \A l \in Languages :
                 /\ l \in DOMAIN i18nFiles
                 /\ w \in DOMAIN i18nFiles[l].val
                 /\ i18nFiles[l].val[w]
                        = IF l \in DOMAIN cli.original.val[w].val
                          THEN cli.original.val[w].val[l]
                          ELSE <<>>

\* C26: after to-words, every (key, language) pair of the dictionary written
\* whose value is missing or empty has been warned about.
C26_GapsWarned ==
    cli.command = "to-words"
        => \A w \in DOMAIN wordsFile.data.val :
              \A l \in Languages :
                 ~Truthy(wordsFile.data.val[w], l) => <<w, l>> \in cli.missing

(***************************************************************************)
(* Claims about empty texts in io-package.json (SpecCli).                  *)
(***************************************************************************)
\* C27: when translateIoPackage has gone through io-package.json, an error
\* has been logged for every object whose English text is empty.
C27_EmptyFieldLogged ==
    PackageWritten
        => \A i \in DOMAIN runLog.startPackage :
              LET obj == runLog.startPackage[i].obj
              IN  ("en" \in DOMAIN obj.val /\ Trim(obj.val["en"]) = <<>>)
                      => \E lang \in Languages :
                            <<lang, i>> \in runLog.emptyFields

(***************************************************************************)
(* Claims about the translation cache (Spec).                              *)
(***************************************************************************)
\* the entries of a cache: (language, text, translation)
Entries(cache) ==
    UNION {{<<l, t, cache[l][t]>> : t \in DOMAIN cache[l]} : l \in DOMAIN cache}

\* C28: an entry enters the cache only in the step in which the provider call
\* for its language and text resolves, with the string that call returns; no
\* other step adds or changes an entry, only clearTranslationCache removes
\* entries, and resetRateLimitState leaves the cache and the maximum wait
\* time as they are.
C28_CacheIntegrity ==
    [][/\ \A e \in Entries(translationCache') \ Entries(translationCache) :
             /\ call.pc = "invoking"
             /\ call'.pc = "idle"
             /\ last'.kind = "return"
             /\ last'.sig = NoError
             /\ e = <<call.lang, call.text, last'.value>>
       /\ Entries(translationCache) \ Entries(translationCache') # {}
             => /\ last'.op = "clearTranslationCache"
                /\ translationCache' = EmptyMap
       /\ (last'.op = "resetRateLimitState" /\ last' # last)
             => /\ translationCache' = translationCache
                /\ rateLimitMaxWaitTime' = rateLimitMaxWaitTime]_vars

\* a call was skipped while the cache holds the result of an earlier call
C28_Witness ==
    /\ last.op = "translateText"
    /\ last.kind = "throw"
    /\ Entries(translationCache) # {}
    /\ ~CacheHas(translationCache, last.lang, last.text)
    /\ rateLimitMaxWaitTime # DefaultMaxWaitTime

(***************************************************************************)
(* Claims about the files of an aborted translate run (SpecRun).           *)
(***************************************************************************)
\* the catalog file of language L is as it was when the run began
FileUntouched(L) ==
    /\ L \in DOMAIN i18nFiles <=> L \in DOMAIN runLog.startFiles
    /\ L \in DOMAIN i18nFiles => i18nFiles[L] = runLog.startFiles[L]

\* the catalog file of language L has been through every key of the base
FileComplete(L) ==
    /\ L \in DOMAIN i18nFiles
    /\ \A k \in BaseKeys :
          /\ k \in DOMAIN i18nFiles[L].val
          /\ Truthy(i18nFiles[L], k) \/ ~TruthyStr(baseContent.val[k])

\* C29: when a translate run was ended by an error, the file it was at (the
\* io-package.json, or the catalog of the language it was at) is on disk as
\* it was before the run, the files before it have been written completely
\* and the catalogs after it are untouched.
C29_NoPartialFile ==
    run.pc \in {"aborted", "failed"}
        => IF run.pc = "aborted" /\ run.langs = <<>>
           THEN /\ ioPackageFile = runLog.startPackage
                /\ i18nFiles = runLog.startFiles
           ELSE /\ C22_PackageFilled
                /\ run.pc = "failed" => i18nFiles = runLog.startFiles
                /\ run.pc = "aborted"
                       => \A n \in DOMAIN run.langs :
                             IF n < run.i
                             THEN FileComplete(run.langs[n])
                             ELSE FileUntouched(run.langs[n])

\* the run was ended at the second key of the second language
C29_Witness ==
    /\ run.pc = "aborted"
    /\ run.i = 2
    /\ run.j = 2
    /\ run.content # Loaded(runLog.startFiles, run.langs[2])
    /\ runLog.startFiles # i18nFiles

(***************************************************************************)
(* Claims about interleaved translateText calls (SpecInterleave).          *)
(***************************************************************************)
\* C30 as stated: no provider invocation begins while isRateLimited is set,
\* neither at the start of a call nor when a call wakes from its retry wait.
C30_AsStated ==
    [][(peer' = peer /\ call.pc \in {"idle", "waiting"}
            /\ call'.pc = "invoking")
           => ~isRateLimited]_vars

\* C30: a translateText call that starts while isRateLimited is set begins no
\* provider invocation, whatever other calls are suspended.
C30_NoNewCallInvokes ==
    [][(peer' = peer /\ call.pc = "idle" /\ call'.pc = "invoking")
           => ~isRateLimited]_vars

\* a call that started after another call had set isRateLimited was skipped
\* while a third call was waiting for its retry
C30_Witness ==
    /\ last.op = "translateText"
    /\ last.kind = "throw"
    /\ last.before.isRateLimited
    /\ last.invocations = 0
    /\ peer.pc = "waiting"
    /\ isRateLimited

====
